---- MODULE Spec2Model ----
(***************************************************************************)
(* State-machine model of the Archive Categorization Engine of            *)
(* Workspace_Cleanup: the forward sweeps (organize_folder in both source   *)
(* files, handle_shortcuts_first, move_shortcuts) and the repair sweeps    *)
(* (fix_onedrive_archives, fix_all_archives, update_all_archives) acting   *)
(* on a small file system.                                                 *)
(*                                                                         *)
(* A path is a sequence of names relative to the user's home directory.   *)
(* The file system fs maps every existing path to a node: a directory or  *)
(* a file carrying the identity of its content.  The program imports      *)
(* winreg at module level, so it runs on Windows only; the file-system    *)
(* primitives follow the Windows behaviour of os.rename, shutil.move and   *)
(* open().                                                                 *)
(***************************************************************************)
EXTENDS Integers, Sequences, FiniteSets, TLC

VARIABLES fs, categories, now, stats, sweep, hist, call, gui

vars == <<fs, categories, now, stats, sweep, hist, call, gui>>

(***************************************************************************)
(* Bounds of the model.                                                    *)
(***************************************************************************)
\* number of minutes that may pass in a behaviour
MaxTime == 1
\* number of sweeps (forward or repair) a behaviour may start
MaxRuns == 2
\* number of move attempts of a behaviour that find the file locked
MaxLocks == 3
\* longest path, in components, the file system accepts (the platform's
\* path-length limit, MAX_PATH on Windows, counted in components)
MaxPathLen == 8
\* number of cleanup worker threads a behaviour of the window may start
MaxWorkers == 2

(***************************************************************************)
(* Names.  A name is a string; Chars gives its characters, on which the    *)
(* string functions of the program (lower, in, endswith, splitext) are     *)
(* computed.                                                               *)
(***************************************************************************)
Chars(n) ==
  CASE n = "Desktop"     -> <<"D","e","s","k","t","o","p">>
    [] n = "Archive"     -> <<"A","r","c","h","i","v","e">>
    [] n = "Mar-14-2024_09-30AM" ->
         <<"M","a","r","-","1","4","-","2","0","2","4","_","0","9","-","3","0","A","M">>
    [] n = "Mar-14-2024_09-31AM" ->
         <<"M","a","r","-","1","4","-","2","0","2","4","_","0","9","-","3","1","A","M">>
    [] n = "Mar-14-2024_09-32AM" ->
         <<"M","a","r","-","1","4","-","2","0","2","4","_","0","9","-","3","2","A","M">>
    [] n = "Documents"   -> <<"D","o","c","u","m","e","n","t","s">>
    [] n = "Shortcuts"   -> <<"S","h","o","r","t","c","u","t","s">>
    [] n = "ZIP_Files"   -> <<"Z","I","P","_","F","i","l","e","s">>
    [] n = "Others"      -> <<"O","t","h","e","r","s">>
    [] n = "Desktop.ini" -> <<"D","e","s","k","t","o","p",".","i","n","i">>
    [] n = "desktop.ini" -> <<"d","e","s","k","t","o","p",".","i","n","i">>
    [] n = "thumbs.db"   -> <<"t","h","u","m","b","s",".","d","b">>
    [] n = "My_Notes"    -> <<"M","y","_","N","o","t","e","s">>
    [] n = "n.txt"       -> <<"n",".","t","x","t">>
    [] n = "N.TXT"       -> <<"N",".","T","X","T">>
    [] n = "a.zip"       -> <<"a",".","z","i","p">>
    [] n = "l.lnk"       -> <<"l",".","l","n","k">>
    [] n = "L.LNK"       -> <<"L",".","L","N","K">>
    [] n = ".lnk"        -> <<".","l","n","k">>
    [] n = "Archive.lnk" -> <<"A","r","c","h","i","v","e",".","l","n","k">>
    [] n = "OneDrive"    -> <<"O","n","e","D","r","i","v","e">>
    [] n = "Archive - Pre-2024" ->
         <<"A","r","c","h","i","v","e"," ","-"," ","P","r","e","-","2","0","2","4">>

\* every name of the model, in the order a directory listing returns them
\* (os.listdir on NTFS lists a directory in the order of its name index)
NameOrder ==
  << ".lnk", "a.zip", "Archive", "Archive - Pre-2024", "Archive.lnk", "Desktop",
     "desktop.ini", "Desktop.ini", "Documents", "l.lnk", "L.LNK",
     "Mar-14-2024_09-30AM", "Mar-14-2024_09-31AM", "Mar-14-2024_09-32AM", "My_Notes",
     "n.txt", "N.TXT", "OneDrive", "Others", "Shortcuts", "thumbs.db", "ZIP_Files" >>

\* str.lower() on one character
LowerChar(c) ==
  CASE c = "A" -> "a" [] c = "B" -> "b" [] c = "C" -> "c" [] c = "D" -> "d"
    [] c = "E" -> "e" [] c = "F" -> "f" [] c = "G" -> "g" [] c = "H" -> "h"
    [] c = "I" -> "i" [] c = "J" -> "j" [] c = "K" -> "k" [] c = "L" -> "l"
    [] c = "M" -> "m" [] c = "N" -> "n" [] c = "O" -> "o" [] c = "P" -> "p"
    [] c = "Q" -> "q" [] c = "R" -> "r" [] c = "S" -> "s" [] c = "T" -> "t"
    [] c = "U" -> "u" [] c = "V" -> "v" [] c = "W" -> "w" [] c = "X" -> "x"
    [] c = "Y" -> "y" [] c = "Z" -> "z" [] OTHER -> c

\* str.lower()
Lower(s) == [i \in 1..Len(s) |-> LowerChar(s[i])]

\* `sub in s` on strings
Contains(s, sub) ==
  \E i \in 1..(Len(s) - Len(sub) + 1) : SubSeq(s, i, i + Len(sub) - 1) = sub

\* s.endswith(suf)
EndsWith(s, suf) ==
  /\ Len(suf) <= Len(s)
  /\ SubSeq(s, Len(s) - Len(suf) + 1, Len(s)) = suf

\* os.path.splitext(name)[1]: the text from the last dot on, provided a
\* character other than a dot precedes that dot; the empty string otherwise
SplitExt(s) ==
  LET dots == {i \in 1..Len(s) : s[i] = "."} IN
  IF dots = {} THEN << >>
  ELSE LET d == CHOOSE i \in dots : \A j \in dots : j <= i IN
       IF \E k \in 1..(d - 1) : s[k] # "." THEN SubSeq(s, d, Len(s)) ELSE << >>

\* the tuple ('.lnk', '.url', '.desktop') of the shortcut tests
ShortcutExts ==
  { <<".","l","n","k">>, <<".","u","r","l">>, <<".","d","e","s","k","t","o","p">> }

\* item.lower().endswith(('.lnk', '.url', '.desktop'))
IsShortcutName(n) == \E e \in ShortcutExts : EndsWith(Lower(Chars(n)), e)

(***************************************************************************)
(* File-system primitives.                                                 *)
(***************************************************************************)
Dir == [kind |-> "dir"]
File(id) == [kind |-> "file", id |-> id, hidden |-> FALSE]
\* the Desktop.ini sidecar after SetFileAttributesW(ini_path, 0x2 | 0x4)
Sidecar == [kind |-> "file", id |-> 0, hidden |-> TRUE]
\* an entry the process may not inspect: os.stat on it raises PermissionError,
\* so os.path.isdir and os.path.isfile return False and os.path.getsize raises
Denied(id) == [kind |-> "denied", id |-> id, hidden |-> FALSE]

Exists(f, p) == p \in DOMAIN f
IsDir(f, p)  == p \in DOMAIN f /\ f[p].kind = "dir"
IsFile(f, p) == p \in DOMAIN f /\ f[p].kind = "file"

Parent(p) == SubSeq(p, 1, Len(p) - 1)
BaseName(p) == p[Len(p)]
IsPrefix(p, q) == Len(p) <= Len(q) /\ SubSeq(q, 1, Len(p)) = p

\* os.listdir(p): the names of the entries of p
ListDir(f, p) == SelectSeq(NameOrder, LAMBDA n : Append(p, n) \in DOMAIN f)

\* byte size of the content with identity id (os.path.getsize of a file)
SizeOfContent(id) == id + 1

\* get_file_size: os.path.getsize, 0 when it raises (path missing, or stat
\* refused); a directory reports size 0 on Windows
get_file_size(f, p) ==
  IF ~IsFile(f, p) THEN 0 ELSE SizeOfContent(f[p].id)

\* the result of a file-system call: the new file system and the exception
\* raised ("none" when the call returns)
Ok(f) == [fs |-> f, exc |-> "none"]
Raise(f, e) == [fs |-> f, exc |-> e]

\* the ancestors of p that are missing, and p itself
MissingDirs(f, p) == {SubSeq(p, 1, k) : k \in 1..Len(p)} \ DOMAIN f

\* os.makedirs(p) without exist_ok: an existing directory raises
MakeDirs_NoExistOk(f, p) ==
  IF \E k \in 1..Len(p) : IsFile(f, SubSeq(p, 1, k)) \/ IsDir(f, p)
  THEN Raise(f, "FileExistsError")
  ELSE IF Len(p) > MaxPathLen THEN Raise(f, "FileNotFoundError")
  ELSE Ok([q \in DOMAIN f \cup MissingDirs(f, p) |-> IF q \in DOMAIN f THEN f[q] ELSE Dir])

\* os.makedirs(p, exist_ok=True)
MakeDirs(f, p) ==
  IF IsDir(f, p) THEN Ok(f)
  ELSE IF \E k \in 1..Len(p) : IsFile(f, SubSeq(p, 1, k)) THEN Raise(f, "FileExistsError")
  ELSE IF Len(p) > MaxPathLen THEN Raise(f, "FileNotFoundError")
  ELSE Ok([q \in DOMAIN f \cup MissingDirs(f, p) |-> IF q \in DOMAIN f THEN f[q] ELSE Dir])

\* os.rename(src, dst) of an entry and everything below it, dst being free
Rename(f, src, dst) ==
  LET moved == {q \in DOMAIN f : IsPrefix(src, q)}
      NewPath(q) == dst \o SubSeq(q, Len(src) + 1, Len(q))
      target == {NewPath(q) : q \in moved}
  IN [q \in (DOMAIN f \ moved) \cup target |->
        IF q \in target
        THEN f[CHOOSE r \in moved : NewPath(r) = q]
        ELSE f[q]]

\* shutil.move(src, dst) on Windows.  os.rename raises when dst exists, when
\* the parent of dst is missing, or when dst lies inside src; shutil.move
\* then copies: a file is copied over an existing file (which it replaces)
\* and the source is unlinked; a missing parent makes the copy raise too.
ShMove(f, src, dst) ==
  LET real_dst == IF IsDir(f, dst) THEN Append(dst, BaseName(src)) ELSE dst IN
  IF ~Exists(f, src) THEN Raise(f, "FileNotFoundError")
  ELSE IF IsDir(f, dst) /\ Exists(f, real_dst) THEN Raise(f, "Error")
  ELSE IF IsDir(f, src) /\ IsPrefix(src, real_dst) THEN Raise(f, "Error")
  ELSE IF ~Exists(f, real_dst)
       THEN IF IsDir(f, Parent(real_dst)) /\ Len(real_dst) <= MaxPathLen
            THEN Ok(Rename(f, src, real_dst))
            ELSE Raise(f, "FileNotFoundError")
  ELSE IF IsDir(f, src) THEN Raise(f, "FileExistsError")
  ELSE IF f[real_dst].hidden THEN Raise(f, "PermissionError")
  ELSE Ok([q \in DOMAIN f \ {src} |-> IF q = real_dst THEN f[src] ELSE f[q]])

\* shutil.move(src, dst) of a file that another process holds open, sharing
\* it for reading but not for deletion: os.rename raises, the copy of the
\* fallback goes through (over an existing file, which it replaces), and
\* os.unlink(src) raises PermissionError, which leaves shutil.move with the
\* copy in place
SharedLockMove(f, src, dst) ==
  LET real_dst == IF IsDir(f, dst) THEN Append(dst, BaseName(src)) ELSE dst IN
  IF ~IsFile(f, src) THEN Raise(f, "PermissionError")
  ELSE IF ~IsDir(f, Parent(real_dst)) \/ Len(real_dst) > MaxPathLen
       THEN Raise(f, "FileNotFoundError")
  ELSE IF Exists(f, real_dst) /\ (~IsFile(f, real_dst) \/ f[real_dst].hidden)
       THEN Raise(f, "PermissionError")
  ELSE Raise([q \in DOMAIN f \cup {real_dst} |-> IF q = real_dst THEN f[src] ELSE f[q]],
             "PermissionError")

\* what may hold the file of a move: nothing, a process that has it open
\* exclusively (every access raises PermissionError), or one that shares it
\* for reading
Locks == {"free", "exclusive", "shared"}

\* the locks met by the forward sweeps that run between repair sweeps
ExclusiveLocks == {"free", "exclusive"}

\* open(ini_path, 'w') followed by the two SetFileAttributesW calls: writes the
\* Desktop.ini sidecar of folder_path and marks it hidden and system.  On
\* Windows, opening an existing hidden or system file for writing raises
\* PermissionError; a missing folder raises FileNotFoundError.
WriteSidecar(f, folder_path) ==
  LET ini_path == Append(folder_path, "Desktop.ini") IN
  IF ~IsDir(f, folder_path) \/ Len(ini_path) > MaxPathLen THEN Raise(f, "FileNotFoundError")
  ELSE IF Exists(f, ini_path) /\ (f[ini_path].kind = "dir" \/ f[ini_path].hidden)
       THEN Raise(f, "PermissionError")
  ELSE Ok([q \in DOMAIN f \cup {ini_path} |-> IF q = ini_path THEN Sidecar ELSE f[q]])

(***************************************************************************)
(* Configuration: the categories, in declaration order, each with its set  *)
(* of lower-cased extensions.                                              *)
(***************************************************************************)
Documents == [name |-> "Documents",
              extensions |-> { <<".","t","x","t">>, <<".","p","d","f">> }]
Shortcuts == [name |-> "Shortcuts",
              extensions |-> { <<".","l","n","k">>, <<".","u","r","l">> }]
ZIP_Files == [name |-> "ZIP_Files", extensions |-> { <<".","z","i","p">> }]
Others    == [name |-> "Others", extensions |-> {}]

\* the declaration orders a behaviour may be configured with
CatConfigs ==
  { <<Documents, Shortcuts, ZIP_Files, Others>>,
    <<ZIP_Files, Others, Documents, Shortcuts>>,
    <<Others, Shortcuts, Documents, ZIP_Files>> }

\* self.categories.keys(), in declaration order
CategoryNames(cats) == [i \in 1..Len(cats) |-> cats[i].name]

\* the classifier with its two tests in the other order: the configured
\* categories are scanned before the shortcut extensions are tested
get_category_for_extension_ScanFirst(cats, ext) ==
  LET hits == {i \in 1..Len(cats) : ext \in cats[i].extensions} IN
  IF hits # {} THEN cats[CHOOSE i \in hits : \A j \in hits : i <= j].name
  ELSE IF ext \in ShortcutExts THEN "Shortcuts"
  ELSE "Others"

\* get_category_for_extension(ext)
get_category_for_extension(cats, ext) ==
  IF ext \in ShortcutExts THEN "Shortcuts"
  ELSE LET hits == {i \in 1..Len(cats) : ext \in cats[i].extensions} IN
       IF hits = {} THEN "Others"
       ELSE cats[CHOOSE i \in hits : \A j \in hits : i <= j].name

\* the classification inside move_to_category, lines 348-359: Others, unless
\* the extension is a shortcut extension, or else a category lists it, the
\* loop over the categories ending at the first that does
RECURSIVE FirstMatch(_, _, _)
FirstMatch(cats, ext, category) ==
  IF cats = << >> THEN category
  ELSE IF ext \in Head(cats).extensions THEN Head(cats).name
  ELSE FirstMatch(Tail(cats), ext, category)

CategoryInMove(cats, ext) ==
  IF ext \in ShortcutExts THEN "Shortcuts" ELSE FirstMatch(cats, ext, "Others")

\* the category of a file name: splitext(name.lower())[1], then the classifier
\* the classification of a file name without lower-casing the name first
CategoryOfName_CaseSensitive(cats, n) == get_category_for_extension(cats, SplitExt(Chars(n)))

CategoryOfName(cats, n) == get_category_for_extension(cats, SplitExt(Lower(Chars(n))))

(***************************************************************************)
(* System-Entry Filter.                                                    *)
(***************************************************************************)
system_files ==
  { <<"d","e","s","k","t","o","p",".","i","n","i">>,
    <<"r","e","c","y","c","l","e"," ","b","i","n">>,
    <<"t","r","a","s","h">>,
    <<"$","r","e","c","y","c","l","e",".","b","i","n">>,
    <<".","d","s","_","s","t","o","r","e">>,
    <<"t","h","u","m","b","s",".","d","b">> }

\* os.path.isdir is False for an entry whose stat raises, so is an entry that
\* cannot be inspected not a system file unless its name is on the list; the
\* except branch returns False as well
is_system_file(f, file_path) ==
  LET file_lower == Lower(Chars(BaseName(file_path))) IN
  \/ file_lower \in system_files
  \/ /\ IsDir(f, file_path)
     /\ \/ Contains(file_lower, <<"$","r","e","c","y","c","l","e",".","b","i","n">>)
        \/ Contains(file_lower, <<"r","e","c","y","c","l","e"," ","b","i","n">>)

\* the filter without its two tests for archive folders
IsEligible_NoArchiveTest(f, folder_path, item) ==
  ~is_system_file(f, Append(folder_path, item))

\* the filter of the older organize_folder: not the Archive folder, not a
\* system file, no "archive" in the lower-cased name
IsEligible(f, folder_path, item) ==
  /\ item # "Archive"
  /\ ~is_system_file(f, Append(folder_path, item))
  /\ ~Contains(Lower(Chars(item)), <<"a","r","c","h","i","v","e">>)

(***************************************************************************)
(* Clock and timestamp folder names.                                       *)
(***************************************************************************)
\* datetime.now().strftime("%b-%d-%Y_%I-%M%p") for a clock that counts the
\* minutes from 09:30 AM on 14 March 2024
TimestampNames ==
  << "Mar-14-2024_09-30AM", "Mar-14-2024_09-31AM", "Mar-14-2024_09-32AM" >>

Timestamp(t) == TimestampNames[t + 1]

(***************************************************************************)
(* The folders of the model.                                               *)
(***************************************************************************)
\* self.desktop_path
desktop_path == << "Desktop" >>

\* the source folders the forward sweeps are called with
SourceFolders == { desktop_path }

\* the mirrored Desktop archive fix_onedrive_archives repairs
onedrive_root == << "OneDrive", "Archive - Pre-2024" >>
onedrive_archive == onedrive_root \o << "Desktop", "Archive" >>

(***************************************************************************)
(* Initial file systems.  Every user file has its own content identity.    *)
(***************************************************************************)
\* the content identity of the file a name stands for in the Desktop folder
DesktopId(n) ==
  CASE n = "n.txt" -> 1 [] n = "a.zip" -> 2 [] n = "l.lnk" -> 3
    [] n = "desktop.ini" -> 4 [] n = "Archive.lnk" -> 5 [] n = "thumbs.db" -> 6

\* the loose entries the Desktop folder may hold at the start
DesktopListings ==
  { {}, {"desktop.ini", "thumbs.db"}, {"n.txt", "a.zip"},
    {"a.zip", "l.lnk", "desktop.ini"}, {"Archive.lnk"} }

\* a file system given by a set of <<path, node>> pairs
MkFs(entries) ==
  [p \in {e[1] : e \in entries} |-> (CHOOSE e \in entries : e[1] = p)[2]]

DesktopEntries(listing) ==
  { <<desktop_path, Dir>> } \cup
  { <<Append(desktop_path, n), File(DesktopId(n))>> : n \in listing }

\* what the Archive of the Desktop holds at the start: nothing, an empty
\* ArchiveRoot, or the batch of an earlier sweep made in the current minute
DesktopArchiveEntries(kind) ==
  LET archive == Append(desktop_path, "Archive")
      dated == Append(archive, Timestamp(0))
  IN CASE kind = "none"  -> {}
       [] kind = "empty" -> { <<archive, Dir>> }
       [] kind = "batch" ->
            { <<archive, Dir>>, <<dated, Dir>>,
              <<Append(dated, "a.zip"), File(7)>>,
              <<Append(dated, "Shortcuts"), Dir>>,
              <<dated \o <<"Shortcuts", "l.lnk">>, File(8)>> }

\* what the mirrored archive holds at the start: nothing, a DatedSubtree with
\* loose files only, one with filed files and a loose duplicate, two
\* DatedSubtrees, the first with a Documents folder an earlier repair has
\* decorated and the second with a loose file, or (bare) a mirrored Desktop
\* that has no Archive folder but a folder of the user with a file in it
OneDriveEntries(kind) ==
  LET dated == Append(onedrive_archive, Timestamp(0))
      dirs == { <<SubSeq(onedrive_archive, 1, k), Dir>> : k \in 1..Len(onedrive_archive) }
               \cup { <<dated, Dir>> }
  IN CASE kind = "none"  -> {}
       [] kind = "loose" ->
            dirs \cup { <<Append(dated, "n.txt"), File(9)>>,
                        <<Append(dated, "a.zip"), File(10)>> }
       [] kind = "filed" ->
            dirs \cup { <<Append(dated, "Documents"), Dir>>,
                        <<dated \o <<"Documents", "n.txt">>, File(11)>>,
                        <<Append(dated, "ZIP_Files"), Dir>>,
                        <<dated \o <<"ZIP_Files", "a.zip">>, File(12)>>,
                        <<Append(dated, "n.txt"), File(9)>> }
       [] kind = "two" ->
            dirs \cup { <<Append(dated, "Documents"), Dir>>,
                        <<dated \o <<"Documents", "Desktop.ini">>, Sidecar>>,
                        <<Append(onedrive_archive, Timestamp(1)), Dir>>,
                        <<onedrive_archive \o <<Timestamp(1), "n.txt">>, File(13)>> }
       [] kind = "bare" ->
            { <<SubSeq(onedrive_archive, 1, k), Dir>> : k \in 1..(Len(onedrive_archive) - 1) }
            \cup { <<Append(Parent(onedrive_archive), "My_Notes"), Dir>>,
                   <<Parent(onedrive_archive) \o <<"My_Notes", "n.txt">>, File(16)>> }

\* the worlds a behaviour may start in: a Desktop with or without an
\* archive and no mirror, a mirrored archive next to a small Desktop, or a
\* Desktop with one entry that cannot be inspected
InitialFileSystems ==
  { MkFs(DesktopEntries(l) \cup DesktopArchiveEntries(a)) :
      l \in DesktopListings, a \in {"none", "batch"} }
  \cup
  { MkFs(DesktopEntries({"n.txt", "a.zip"}) \cup DesktopArchiveEntries("empty")) }
  \cup
  { MkFs(DesktopEntries({}) \cup OneDriveEntries(o)) : o \in {"loose", "filed", "two", "bare"} }
  \cup
  { MkFs(DesktopEntries({"a.zip", "l.lnk", "desktop.ini"}) \cup DesktopArchiveEntries("batch")
         \cup OneDriveEntries("filed")) }
  \cup
  { MkFs(DesktopEntries({}) \cup { <<Append(desktop_path, "N.TXT"), Denied(14)>> }) }

(***************************************************************************)
(* State.                                                                  *)
(*   fs         the file system                                            *)
(*   categories self.categories                                            *)
(*   now        the clock, in minutes                                      *)
(*   stats      self.stats                                                 *)
(*   sweep      the forward sweep in progress: which routine, its folder,  *)
(*              its destination folder, the entries still to move and the  *)
(*              retry counter of the current entry                         *)
(*   hist       bookkeeping for the properties: the initial file system,   *)
(*              the number of sweeps started, and a record of the current  *)
(*              and of the previous sweep                                  *)
(*   call       a call of the Extension Classifier on its own: the          *)
(*              extension and the category returned                        *)
(*   gui        the window of FileOrganizerGUI: whether the dialog is open  *)
(*              and the cleanup worker threads that are running            *)
(***************************************************************************)
IdleSweep == [pc |-> "idle", folder |-> << >>, dest |-> << >>, queue |-> << >>,
              retry_count |-> 0]

\* the record of a sweep: the routine, its folder, whether it ran to its
\* end, files_moved at its start, the number of entries the System-Entry
\* Filter accepted at its start, whether a move of it failed or met an
\* existing destination, the entries it selected, its DatedSubtree and
\* whether that existed before, (for a repair sweep) the numbers of files it
\* moved and of directories it created, whether it moved an entry in a
\* later minute than the one it started in, and errors at its start
NoRun == [op |-> "none", folder |-> << >>, done |-> TRUE, moved0 |-> 0, eligible |-> 0,
          failed |-> FALSE, collided |-> FALSE, selected |-> {}, dated |-> << >>,
          datedNew |-> FALSE, moves |-> 0, mkdirs |-> 0, late |-> FALSE, errors0 |-> 0]

\* no classifier call is in progress
NoCall == [fn |-> "none"]

\* the window at start-up: no dialog, no worker thread
NoGui == [dialog |-> FALSE, workers |-> << >>, started |-> 0]

\* the entries of folder the System-Entry Filter accepts
EligibleEntries(f, folder) ==
  {n \in {NameOrder[i] : i \in 1..Len(NameOrder)} :
     Exists(f, Append(folder, n)) /\ IsEligible(f, folder, n)}

NewRun(op, folder, dated) ==
  [NoRun EXCEPT !.op = op, !.folder = folder, !.done = FALSE,
                !.moved0 = stats.files_moved, !.errors0 = stats.errors,
                !.eligible = Cardinality(EligibleEntries(fs, folder)),
                !.dated = dated]

Init ==
  /\ fs \in InitialFileSystems
  /\ categories \in CatConfigs
  /\ now = 0
  /\ stats = [files_moved |-> 0, space_cleared |-> 0, errors |-> 0]
  /\ sweep = IdleSweep
  /\ hist = [fs0 |-> fs, runs |-> 0, locks |-> 0, okSize |-> 0, last |-> NoRun,
             prevOp |-> "none"]
  /\ call = NoCall
  /\ gui = NoGui

\* a sweep may start: none is running and the bound on sweeps is not reached
CanStart == sweep.pc = "idle" /\ hist.runs < MaxRuns

\* bookkeeping at the start of a sweep
Started(run) ==
  [hist EXCEPT !.runs = @ + 1, !.prevOp = hist.last.op,
               !.last = [run EXCEPT !.datedNew = ~Exists(fs, run.dated) /\ Exists(fs', run.dated)]]

(***************************************************************************)
(* The older organize_folder (File_Organizer (old).py).                    *)
(***************************************************************************)
\* lines 181-223: the Archive folder, the timestamp, the listing, the filter
\* and the creation of the dated subfolder
organize_folder_old(folder_path) ==
  /\ CanStart
  /\ LET archive_folder == Append(folder_path, "Archive")
         dated_subfolder == Append(archive_folder, Timestamp(now))
         run == NewRun("organize_folder_old", folder_path, dated_subfolder)
         m1 == IF Exists(fs, archive_folder) THEN Ok(fs) ELSE MakeDirs(fs, archive_folder)
         all_items == ListDir(m1.fs, folder_path)
         files_to_move == SelectSeq(all_items, LAMBDA n : IsEligible(m1.fs, folder_path, n))
         m2 == MakeDirs(m1.fs, dated_subfolder)
     IN IF ~Exists(fs, folder_path) \/ m1.exc # "none"
        THEN /\ hist' = Started([run EXCEPT !.done = TRUE])
             /\ UNCHANGED <<fs, sweep>>
        ELSE IF files_to_move = << >> \/ m2.exc # "none"
        THEN /\ fs' = m1.fs
             /\ hist' = Started([run EXCEPT !.done = TRUE,
                                            !.selected = {files_to_move[i] : i \in 1..Len(files_to_move)}])
             /\ UNCHANGED sweep
        ELSE /\ fs' = m2.fs
             /\ sweep' = [pc |-> "old", folder |-> folder_path, dest |-> dated_subfolder,
                          queue |-> files_to_move, retry_count |-> 3]
             /\ hist' = Started([run EXCEPT
                                   !.selected = {files_to_move[i] : i \in 1..Len(files_to_move)}])
  /\ UNCHANGED <<categories, call, gui, now, stats>>

\* the sweep after its current entry is finished
NextEntry(s, retries) ==
  IF Len(s.queue) <= 1 THEN IdleSweep
  ELSE [s EXCEPT !.queue = Tail(@), !.retry_count = retries]

\* bookkeeping after an attempt on the current entry
Attempted(locked, failed, collided, size) ==
  [hist EXCEPT !.locks = IF locked THEN @ + 1 ELSE @,
               !.last.failed = @ \/ failed,
               !.last.collided = @ \/ collided,
               !.last.done = Len(sweep.queue) <= 1 /\ sweep'.pc = "idle",
               !.last.late = @ \/ (fs' # fs /\ BaseName(hist.last.dated) # Timestamp(now)),
               !.okSize = @ + size]

\* the retry test with its comparison off by one: the attempt is repeated
\* while the counter is positive
Retry_WhilePositive(exc, retry_count) == exc = "PermissionError" /\ retry_count > 0

\* lines 240-244: a PermissionError is retried unless the decremented counter
\* is 0; any other exception leaves the loop
Retry(exc, retry_count) == exc = "PermissionError" /\ retry_count > 1

\* the move with the timestamp taken anew, and its folder made, for every item
MoveToDated_TimestampPerItem(f, item_path, dated_subfolder) ==
  LET fresh == Append(Parent(dated_subfolder), Timestamp(now))
      m == MakeDirs(f, fresh)
  IN ShMove(m.fs, item_path, Append(fresh, BaseName(item_path)))

\* lines 227-236: the move of an item to its name under the dated subfolder
\* of the sweep
MoveToDated(f, item_path, dated_subfolder) ==
  ShMove(f, item_path, Append(dated_subfolder, BaseName(item_path)))

\* lines 225-248: one attempt to move the current entry.  lock: what another
\* process does to the file meanwhile, see Locks
organize_folder_old_move(lock) ==
  /\ sweep.pc = "old"
  /\ lock # "free" => hist.locks < MaxLocks
  /\ LET locked == lock # "free"
         item == Head(sweep.queue)
         item_path == Append(sweep.folder, item)
         target_path == Append(sweep.dest, item)
         size == get_file_size(fs, item_path)
         r == CASE lock = "free" -> MoveToDated(fs, item_path, sweep.dest)
                [] lock = "exclusive" -> Raise(fs, "PermissionError")
                [] lock = "shared" -> SharedLockMove(fs, item_path, target_path)
         collided == Exists(fs, target_path)
     IN /\ fs' = r.fs
        /\ IF r.exc = "none"
           THEN /\ stats' = [stats EXCEPT !.space_cleared = @ + size, !.files_moved = @ + 1]
                /\ sweep' = NextEntry(sweep, 3)
                /\ hist' = Attempted(locked, FALSE, collided, size)
           ELSE IF Retry(r.exc, sweep.retry_count)
           THEN /\ stats' = [stats EXCEPT !.space_cleared = @ + size]
                /\ sweep' = [sweep EXCEPT !.retry_count = @ - 1]
                /\ hist' = Attempted(locked, FALSE, collided, 0)
           ELSE /\ stats' = [stats EXCEPT !.space_cleared = @ + size, !.errors = @ + 1]
                /\ sweep' = NextEntry(sweep, 3)
                /\ hist' = Attempted(locked, TRUE, collided, 0)
  /\ UNCHANGED <<categories, call, gui, now>>

(***************************************************************************)
(* The forward sweeps of File_Organizer.py.                                *)
(***************************************************************************)
\* set_folder_color: writes the sidecar; every exception is logged and
\* swallowed
set_folder_color(f, folder_path) == WriteSidecar(f, folder_path).fs

\* the entries of a listing whose lower-cased name ends with a shortcut
\* extension
ShortcutsOf(items) == SelectSeq(items, IsShortcutName)

\* the Shortcuts folder of the sweep that starts now in folder_path
ShortcutsPath(folder_path) == folder_path \o << "Archive", Timestamp(now), "Shortcuts" >>

\* a forward sweep of File_Organizer.py takes up its entries, or ends at once
\* when there is none
StartShortcutSweep(op, folder_path, f, shortcuts) ==
  LET run == [NewRun(op, folder_path, Parent(ShortcutsPath(folder_path))) EXCEPT
                !.selected = {shortcuts[i] : i \in 1..Len(shortcuts)}]
  IN /\ fs' = f
     /\ IF shortcuts = << >>
        THEN /\ hist' = Started([run EXCEPT !.done = TRUE])
             /\ UNCHANGED sweep
        ELSE /\ hist' = Started(run)
             /\ sweep' = [pc |-> op, folder |-> folder_path,
                          dest |-> ShortcutsPath(folder_path),
                          queue |-> shortcuts, retry_count |-> 0]

\* organize_folder, lines 371-388: the listing, the shortcuts among it, the
\* Shortcuts folder and its decoration
organize_folder(folder_path) ==
  /\ CanStart
  /\ LET items == IF Exists(fs, folder_path) THEN ListDir(fs, folder_path) ELSE << >>
         shortcuts == ShortcutsOf(items)
         m == MakeDirs(fs, ShortcutsPath(folder_path))
     IN IF shortcuts = << >> \/ m.exc # "none"
        THEN StartShortcutSweep("organize_folder", folder_path, fs, << >>)
        ELSE StartShortcutSweep("organize_folder", folder_path,
                                set_folder_color(m.fs, ShortcutsPath(folder_path)), shortcuts)
  /\ UNCHANGED <<categories, call, gui, now, stats>>

\* one pass of a loop over shortcuts: the move of the current entry, which may
\* find the file held by another process (lock); abort tells whether an
\* exception ends the whole loop
ShortcutMove(lock, abort) ==
  /\ lock # "free" => hist.locks < MaxLocks
  /\ LET locked == lock # "free"
         item == Head(sweep.queue)
         source_path == Append(sweep.folder, item)
         target_path == Append(sweep.dest, item)
         r == CASE lock = "free" -> ShMove(fs, source_path, target_path)
                [] lock = "exclusive" -> Raise(fs, "PermissionError")
                [] lock = "shared" -> SharedLockMove(fs, source_path, target_path)
     IN /\ fs' = r.fs
        /\ sweep' = IF r.exc # "none" /\ abort THEN IdleSweep ELSE NextEntry(sweep, 0)
        /\ hist' = Attempted(locked, r.exc # "none", Exists(fs, target_path), 0)
  /\ UNCHANGED <<categories, call, gui, now, stats>>

\* organize_folder, lines 390-397
organize_folder_move(lock) ==
  /\ sweep.pc = "organize_folder"
  /\ ShortcutMove(lock, FALSE)

\* handle_shortcuts_first, lines 406-429: the Shortcuts folder is created and
\* decorated before the folder is listed; an exception of either ends the
\* routine
handle_shortcuts_first(folder_path) ==
  /\ CanStart
  /\ LET m == MakeDirs(fs, ShortcutsPath(folder_path))
         w == WriteSidecar(m.fs, ShortcutsPath(folder_path))
     IN IF m.exc # "none" \/ w.exc # "none" \/ ~Exists(fs, folder_path)
        THEN StartShortcutSweep("handle_shortcuts_first", folder_path, w.fs, << >>)
        ELSE StartShortcutSweep("handle_shortcuts_first", folder_path, w.fs,
                                ShortcutsOf(ListDir(w.fs, folder_path)))
  /\ UNCHANGED <<categories, call, gui, now, stats>>

\* handle_shortcuts_first, lines 430-440
handle_shortcuts_first_move(lock) ==
  /\ sweep.pc = "handle_shortcuts_first"
  /\ ShortcutMove(lock, FALSE)

\* move_shortcuts, lines 495-503
move_shortcuts(folder_path) ==
  /\ CanStart
  /\ LET m == MakeDirs(fs, ShortcutsPath(folder_path))
     IN IF m.exc # "none" \/ ~Exists(fs, folder_path)
        THEN StartShortcutSweep("move_shortcuts", folder_path, m.fs, << >>)
        ELSE StartShortcutSweep("move_shortcuts", folder_path, m.fs,
                                ShortcutsOf(ListDir(m.fs, folder_path)))
  /\ UNCHANGED <<categories, call, gui, now, stats>>

\* move_shortcuts, lines 504-510: an exception of a move ends the loop
move_shortcuts_move(lock) ==
  /\ sweep.pc = "move_shortcuts"
  /\ ShortcutMove(lock, TRUE)

(***************************************************************************)
(* The repair sweeps of File_Organizer.py.  Each runs inside one try       *)
(* block: an exception that no inner handler catches ends the routine, and *)
(* what it did before stays done.                                          *)
(***************************************************************************)
\* '_' in name
HasUnderscore(n) == Contains(Chars(n), << "_" >>)

\* a loop over seq that threads the file system through Op and ends at the
\* first exception
RECURSIVE ForEach(_, _, _)
ForEach(Op(_, _), f, seq) ==
  IF seq = << >> THEN Ok(f)
  ELSE LET r == Op(f, Head(seq))
       IN IF r.exc # "none" THEN r ELSE ForEach(Op, r.fs, Tail(seq))

\* the names of the directories among the entries of p
SubDirs(f, p) == SelectSeq(ListDir(f, p), LAMBDA n : IsDir(f, Append(p, n)))

\* the names of the files among the entries of p
FilesIn(f, p) == SelectSeq(ListDir(f, p), LAMBDA n : IsFile(f, Append(p, n)))

\* the loop over the misplaced files without its test for an existing target
MoveMisplaced_Overwrite(f, cats, dated_path, items) ==
  LET MoveOne(g, item) ==
        LET source == Append(dated_path, item)
            target == dated_path \o << CategoryOfName(cats, item), item >>
        IN IF IsFile(g, source) THEN ShMove(g, source, target) ELSE Ok(g)
  IN ForEach(MoveOne, f, items)

\* the inner loop of fix_onedrive_archives (lines 767-776) and of
\* fix_all_archives (lines 632-641): every listed item that is a file is
\* moved into the folder of its category unless the target exists
MoveMisplaced(f, cats, dated_path, items) ==
  LET MoveOne(g, item) ==
        LET source == Append(dated_path, item)
            target == dated_path \o << CategoryOfName(cats, item), item >>
        IN IF IsFile(g, source) /\ ~Exists(g, target) THEN ShMove(g, source, target)
           ELSE Ok(g)
  IN ForEach(MoveOne, f, items)

\* fix_onedrive_archives, lines 719-776: for every category, in declaration
\* order, the folder, its sidecar, and then the loop over the misplaced files
FixDatedFolder(f, cats, dated_path) ==
  LET FixCategory(g, category) ==
        LET category_path == Append(dated_path, category)
            m == MakeDirs(g, category_path)
            w == WriteSidecar(m.fs, category_path)
        IN IF m.exc # "none" THEN m
           ELSE IF w.exc # "none" THEN w
           ELSE MoveMisplaced(w.fs, cats, dated_path, ListDir(w.fs, dated_path))
  IN ForEach(FixCategory, f, CategoryNames(cats))

\* the paths fix_onedrive_archives looks at; of its four paths only the
\* mirrored Desktop archive can exist in the file systems of the model
onedrive_paths == << onedrive_archive >>

\* fix_onedrive_archives, lines 697-781
FixOnedriveArchives(f, cats) ==
  LET FixArchive(g, archive_path) ==
        LET FixEntry(h, dated_folder) ==
              IF IsDir(h, Append(archive_path, dated_folder)) /\ HasUnderscore(dated_folder)
              THEN FixDatedFolder(h, cats, Append(archive_path, dated_folder))
              ELSE Ok(h)
        IN IF Exists(g, archive_path)
           THEN ForEach(FixEntry, g, ListDir(g, archive_path))
           ELSE Ok(g)
  IN ForEach(FixArchive, f, onedrive_paths)

\* move_to_category, lines 342-369: every exception is logged and swallowed
move_to_category(f, cats, file_path, dated_folder) ==
  LET file_name == BaseName(file_path)
      category == CategoryInMove(cats, SplitExt(Lower(Chars(file_name))))
      target_path == dated_folder \o << category, file_name >>
  IN IF ~Exists(f, target_path) THEN ShMove(f, file_path, target_path).fs ELSE f

\* the body of update_all_archives with its two loops in the other order:
\* the misplaced files are moved before the category folders are made
UpdateDatedFolders_MoveFirst(f, cats, root, dirs) ==
  LET UpdateOne(g, dir_name) ==
        LET dated_path == Append(root, dir_name)
            MakeCategory(h, category) ==
              LET m == MakeDirs(h, Append(dated_path, category))
              IN IF m.exc # "none" THEN m
                 ELSE Ok(set_folder_color(m.fs, Append(dated_path, category)))
            MoveItem(h, item) ==
              IF IsFile(h, Append(dated_path, item))
              THEN Ok(move_to_category(h, cats, Append(dated_path, item), dated_path))
              ELSE Ok(h)
            c == ForEach(MoveItem, g, ListDir(g, dated_path))
        IN IF ~HasUnderscore(dir_name) THEN Ok(g)
           ELSE ForEach(MakeCategory, c.fs, CategoryNames(cats))
  IN ForEach(UpdateOne, f, dirs)

\* update_all_archives, lines 321-336: the body for one directory of the
\* walk, given the names of its subdirectories
UpdateDatedFolders(f, cats, root, dirs) ==
  LET UpdateOne(g, dir_name) ==
        LET dated_path == Append(root, dir_name)
            MakeCategory(h, category) ==
              LET m == MakeDirs(h, Append(dated_path, category))
              IN IF m.exc # "none" THEN m
                 ELSE Ok(set_folder_color(m.fs, Append(dated_path, category)))
            MoveItem(h, item) ==
              IF IsFile(h, Append(dated_path, item))
              THEN Ok(move_to_category(h, cats, Append(dated_path, item), dated_path))
              ELSE Ok(h)
            c == ForEach(MakeCategory, g, CategoryNames(cats))
        IN IF ~HasUnderscore(dir_name) THEN Ok(g)
           ELSE IF c.exc # "none" THEN c
           ELSE ForEach(MoveItem, c.fs, ListDir(c.fs, dated_path))
  IN ForEach(UpdateOne, f, dirs)

\* the body of fix_all_archives without its test for an underscore in the
\* name of the walked directory
FixWalkedFolder_EveryFolder(f, cats, root, files) ==
  LET FixCategory(g, category) ==
        LET category_path == Append(root, category)
            m == MakeDirs(g, category_path)
            w == WriteSidecar(m.fs, category_path)
        IN IF m.exc # "none" THEN m
           ELSE IF w.exc # "none" THEN w
           ELSE MoveMisplaced(w.fs, cats, root, files)
  IN ForEach(FixCategory, f, CategoryNames(cats))

\* fix_all_archives, lines 579-641: the body for one directory of the walk,
\* given the names of the files the walk listed in it
FixWalkedFolder(f, cats, root, files) ==
  LET FixCategory(g, category) ==
        LET category_path == Append(root, category)
            m == MakeDirs(g, category_path)
            w == WriteSidecar(m.fs, category_path)
        IN IF m.exc # "none" THEN m
           ELSE IF w.exc # "none" THEN w
           ELSE MoveMisplaced(w.fs, cats, root, files)
  IN IF HasUnderscore(BaseName(root))
     THEN ForEach(FixCategory, f, CategoryNames(cats))
     ELSE Ok(f)

\* os.walk(root), top down: the directory is listed, the body runs on that
\* listing, and then every listed subdirectory is walked in turn, each listed
\* when the walk reaches it.  which selects the body.
RECURSIVE Walk(_, _, _, _)
Walk(which, f, cats, root) ==
  LET dirs == SubDirs(f, root)
      body == IF which = "update_all_archives"
              THEN UpdateDatedFolders(f, cats, root, dirs)
              ELSE FixWalkedFolder(f, cats, root, FilesIn(f, root))
      Descend(g, d) == Walk(which, g, cats, Append(root, d))
  IN IF body.exc # "none" THEN body ELSE ForEach(Descend, body.fs, dirs)

\* the archive locations of update_all_archives (lines 304-313) and of
\* fix_all_archives (lines 556-569) that can exist in the model
archive_locations == << onedrive_root, Append(desktop_path, "Archive") >>

WalkArchives(which, f, cats) ==
  LET WalkOne(g, archive_path) ==
        IF Exists(g, archive_path) THEN Walk(which, g, cats, archive_path) ELSE Ok(g)
  IN ForEach(WalkOne, f, archive_locations)

\* update_all_archives, lines 300-340
UpdateAllArchives(f, cats) == WalkArchives("update_all_archives", f, cats)

\* fix_all_archives, lines 552-646
FixAllArchives(f, cats) == WalkArchives("fix_all_archives", f, cats)

\* the number of files of f that g no longer holds at their path
FilesMoved(f, g) ==
  Cardinality({p \in DOMAIN f : f[p].kind = "file" /\ (p \notin DOMAIN g \/ g[p] # f[p])})

\* the number of directories of g that f does not hold
DirsCreated(f, g) ==
  Cardinality({p \in DOMAIN g : g[p].kind = "dir" /\ p \notin DOMAIN f})

\* a repair sweep as one step
Repair(op, result) ==
  /\ fs' = result.fs
  /\ hist' = Started([NewRun(op, << >>, << >>) EXCEPT
                        !.done = TRUE, !.failed = result.exc # "none",
                        !.moves = FilesMoved(fs, result.fs),
                        !.mkdirs = DirsCreated(fs, result.fs)])
  /\ UNCHANGED <<categories, call, gui, now, stats, sweep>>

fix_onedrive_archives ==
  /\ CanStart
  /\ Repair("fix_onedrive_archives", FixOnedriveArchives(fs, categories))

update_all_archives ==
  /\ CanStart
  /\ Repair("update_all_archives", UpdateAllArchives(fs, categories))

fix_all_archives ==
  /\ CanStart
  /\ Repair("fix_all_archives", FixAllArchives(fs, categories))

(***************************************************************************)
(* Environment.                                                            *)
(***************************************************************************)
\* a minute passes.  The clock is read once, when a sweep starts, so a minute
\* that passes during a sweep is the same as one that passes right after it.
Tick ==
  /\ sweep.pc = "idle"
  /\ now < MaxTime
  /\ now' = now + 1
  /\ UNCHANGED <<fs, categories, call, gui, stats, sweep, hist>>

\* the process is shut down during a forward sweep, between two entries
Shutdown ==
  /\ sweep.pc # "idle"
  /\ sweep.retry_count \in {0, 3}
  /\ sweep' = IdleSweep
  /\ UNCHANGED <<fs, categories, call, gui, now, stats, hist>>

Next ==
  \/ \E folder \in SourceFolders : organize_folder_old(folder)
  \/ \E lock \in ExclusiveLocks : organize_folder_old_move(lock)
  \/ \E folder \in SourceFolders : organize_folder(folder)
  \/ \E lock \in ExclusiveLocks : organize_folder_move(lock)
  \/ \E folder \in SourceFolders : handle_shortcuts_first(folder)
  \/ \E lock \in ExclusiveLocks : handle_shortcuts_first_move(lock)
  \/ \E folder \in SourceFolders : move_shortcuts(folder)
  \/ \E lock \in ExclusiveLocks : move_shortcuts_move(lock)
  \/ fix_onedrive_archives
  \/ update_all_archives
  \/ fix_all_archives
  \/ Tick
  \/ Shutdown

Spec == Init /\ [][Next]_vars

(***************************************************************************)
(* The forward sweeps on their own, run to their end: no repair sweep, no  *)
(* shutdown, and a clock that also advances while a sweep is under way     *)
(* (the retry loop sleeps a second between two attempts).  A sweep that    *)
(* has entries left goes on to its next attempt.                           *)
(***************************************************************************)
\* a minute passes during a sweep
Sleep ==
  /\ sweep.pc # "idle"
  /\ now < MaxTime
  /\ now' = now + 1
  /\ UNCHANGED <<fs, categories, call, gui, stats, sweep, hist>>

\* the next attempt of the sweep under way
ForwardMove ==
  \/ \E lock \in Locks : organize_folder_old_move(lock)
  \/ \E lock \in Locks : organize_folder_move(lock)
  \/ \E lock \in Locks : handle_shortcuts_first_move(lock)
  \/ \E lock \in Locks : move_shortcuts_move(lock)

ForwardNext ==
  \/ \E folder \in SourceFolders : organize_folder_old(folder)
  \/ \E folder \in SourceFolders : organize_folder(folder)
  \/ \E folder \in SourceFolders : handle_shortcuts_first(folder)
  \/ \E folder \in SourceFolders : move_shortcuts(folder)
  \/ ForwardMove
  \/ Tick
  \/ Sleep

ForwardSpec == Init /\ [][ForwardNext]_vars /\ WF_vars(ForwardMove)

(***************************************************************************)
(* The Extension Classifier on its own: a configuration and an extension   *)
(* are chosen, and the classifier is called on them.                       *)
(***************************************************************************)
\* the extensions the classifier is called with: the shortcut extensions,
\* configured and unconfigured ones, an upper-case one and the empty one
ClassifierExts ==
  ShortcutExts \cup
  { <<".","t","x","t">>, <<".","p","d","f">>, <<".","z","i","p">>,
    <<".","L","N","K">>, <<".","x","y","z">>, << >> }

\* the configurations the classifier is called under: those of the sweeps,
\* one whose first category also lists a shortcut extension, one in which two
\* categories list the same extension, one without Shortcuts and Others, and
\* the empty one
ClassifierConfigs ==
  CatConfigs \cup
  { << [Documents EXCEPT !.extensions = @ \cup { <<".","l","n","k">> }],
       Shortcuts, ZIP_Files, Others >>,
    << ZIP_Files, [Documents EXCEPT !.extensions = @ \cup { <<".","z","i","p">> }],
       Shortcuts, Others >>,
    << Documents, ZIP_Files >>,
    << >> }

\* the file names a routine classifies: lower- and upper-case spellings of
\* the same name, shortcuts, a name that is nothing but an extension, and
\* names without an extension
ClassifierNames ==
  { "n.txt", "N.TXT", "l.lnk", "L.LNK", ".lnk", "a.zip", "Archive.lnk",
    "Desktop.ini", "My_Notes" }

ClassifierInit ==
  /\ fs = MkFs(DesktopEntries({}))
  /\ categories \in ClassifierConfigs
  /\ now = 0
  /\ stats = [files_moved |-> 0, space_cleared |-> 0, errors |-> 0]
  /\ sweep = IdleSweep
  /\ hist = [fs0 |-> fs, runs |-> 0, locks |-> 0, okSize |-> 0, last |-> NoRun,
             prevOp |-> "none"]
  /\ call \in [fn : {"pending"}, ext : ClassifierExts]
            \cup [fn : {"file"}, name : ClassifierNames]
  /\ gui = NoGui

\* a call of get_category_for_extension returns
classify ==
  /\ call.fn = "pending"
  /\ call' = [fn |-> "get_category_for_extension", ext |-> call.ext,
              result |-> get_category_for_extension(categories, call.ext)]
  /\ UNCHANGED <<fs, categories, now, stats, sweep, hist, gui>>

\* move_to_category has classified the extension of its file
classify_in_move ==
  /\ call.fn = "pending"
  /\ call' = [fn |-> "move_to_category", ext |-> call.ext,
              result |-> CategoryInMove(categories, call.ext)]
  /\ UNCHANGED <<fs, categories, now, stats, sweep, hist, gui>>

\* move_to_category, lines 344-359, has classified its file by name
classify_name_in_move ==
  /\ call.fn = "file"
  /\ call' = [fn |-> "move_to_category_name", name |-> call.name,
              result |-> CategoryInMove(categories, SplitExt(Lower(Chars(call.name))))]
  /\ UNCHANGED <<fs, categories, now, stats, sweep, hist, gui>>

\* fix_all_archives (lines 636-637) or fix_onedrive_archives (lines 769-770)
\* has classified a misplaced file by name
classify_name_in_fix ==
  /\ call.fn = "file"
  /\ call' = [fn |-> "fix_archives_name", name |-> call.name,
              result |-> CategoryOfName(categories, call.name)]
  /\ UNCHANGED <<fs, categories, now, stats, sweep, hist, gui>>

\* organize_folder, line 382, has decided whether an entry of the listing is
\* a shortcut; result is what the classifier says of the same name
select_shortcut ==
  /\ call.fn = "file"
  /\ call' = [fn |-> "organize_folder_name", name |-> call.name,
              selected |-> IsShortcutName(call.name),
              result |-> CategoryOfName(categories, call.name)]
  /\ UNCHANGED <<fs, categories, now, stats, sweep, hist, gui>>

ClassifierNext ==
  \/ classify
  \/ classify_in_move
  \/ classify_name_in_move
  \/ classify_name_in_fix
  \/ select_shortcut

ClassifierSpec == ClassifierInit /\ [][ClassifierNext]_vars

(***************************************************************************)
(* The window (FileOrganizerGUI): the folder dialog and the cleanup worker *)
(* threads START CLEANUP starts.  A worker is a thread of its own on the   *)
(* shared file system; its steps interleave with the events of the window  *)
(* and with the steps of the other workers.                                *)
(***************************************************************************)
\* the check boxes of the dialog, in the order of the folders dictionary
\* (two of its seven entries)
FolderOrder == << "Desktop", "Documents" >>

\* get_special_folder_path(folder)
get_special_folder_path(folder) == << folder >>

\* a worker thread of run_organizer: the folders it has still to organize,
\* where it is (between two calls, in the shortcut loop of organize_folder,
\* in fix_onedrive_archives, or at its end) and the loop state of the
\* organize_folder call under way
NewWorker(selected_folders) ==
  [todo |-> selected_folders, pc |-> "next", folder |-> << >>, dest |-> << >>,
   queue |-> << >>]

\* the file system the window starts on: shortcuts on the Desktop and in
\* Documents, and a mirrored archive with loose files
GuiFileSystem ==
  MkFs(DesktopEntries({"l.lnk", "Archive.lnk"})
       \cup { <<get_special_folder_path("Documents"), Dir>>,
              <<Append(get_special_folder_path("Documents"), "l.lnk"), File(15)>> }
       \cup OneDriveEntries("loose"))

GuiInit ==
  /\ fs = GuiFileSystem
  /\ categories \in CatConfigs
  /\ now = 0
  /\ stats = [files_moved |-> 0, space_cleared |-> 0, errors |-> 0]
  /\ sweep = IdleSweep
  /\ hist = [fs0 |-> fs, runs |-> 0, locks |-> 0, okSize |-> 0, last |-> NoRun,
             prevOp |-> "none"]
  /\ call = NoCall
  /\ gui = NoGui

\* show_organizer_dialog, lines 937-1046: a click on the button opens the
\* dialog; grab_set keeps the button from being clicked while it is open
show_organizer_dialog ==
  /\ ~gui.dialog
  /\ gui' = [gui EXCEPT !.dialog = TRUE]
  /\ UNCHANGED <<fs, categories, call, now, stats, sweep, hist>>

\* on_dialog_close, lines 1039-1040
on_dialog_close ==
  /\ gui.dialog
  /\ gui' = [gui EXCEPT !.dialog = FALSE]
  /\ UNCHANGED <<fs, categories, call, now, stats, sweep, hist>>

\* start_cleanup, lines 1048-1095: with no folder ticked a warning is shown
\* and the dialog stays; otherwise the dialog is destroyed and a daemon thread
\* is started on run_organizer
start_cleanup(folders) ==
  /\ gui.dialog
  /\ gui.started < MaxWorkers
  /\ LET selected_folders == SelectSeq(FolderOrder, LAMBDA n : n \in folders)
     IN gui' = IF selected_folders = << >> THEN gui
               ELSE [dialog |-> FALSE,
                     workers |-> Append(gui.workers, NewWorker(selected_folders)),
                     started |-> gui.started + 1]
  /\ UNCHANGED <<fs, categories, call, now, stats, sweep, hist>>

\* the worker after its organize_folder call has returned
NextFolder(worker) ==
  [NewWorker(Tail(worker.todo)) EXCEPT !.pc = "next"]

\* run_organizer, lines 1065-1074, entering organize_folder (lines 371-388)
\* on the next selected folder: the listing, the shortcuts among it, the
\* Shortcuts folder and its decoration
run_organizer_organize_folder(w) ==
  /\ w <= Len(gui.workers)
  /\ gui.workers[w].pc = "next"
  /\ gui.workers[w].todo # << >>
  /\ LET worker == gui.workers[w]
         folder_path == get_special_folder_path(Head(worker.todo))
         items == IF Exists(fs, folder_path) THEN ListDir(fs, folder_path) ELSE << >>
         shortcuts == ShortcutsOf(items)
         m == MakeDirs(fs, ShortcutsPath(folder_path))
     IN IF shortcuts = << >> \/ m.exc # "none"
        THEN /\ fs' = fs
             /\ gui' = [gui EXCEPT !.workers[w] = NextFolder(worker)]
        ELSE /\ fs' = set_folder_color(m.fs, ShortcutsPath(folder_path))
             /\ gui' = [gui EXCEPT !.workers[w] =
                          [worker EXCEPT !.pc = "moving", !.folder = folder_path,
                                         !.dest = ShortcutsPath(folder_path),
                                         !.queue = shortcuts]]
  /\ UNCHANGED <<categories, call, now, stats, sweep, hist>>

\* organize_folder, lines 390-397, in a worker: the move of one shortcut; an
\* exception is logged and the loop goes on
run_organizer_move(w) ==
  /\ w <= Len(gui.workers)
  /\ gui.workers[w].pc = "moving"
  /\ LET worker == gui.workers[w]
         shortcut == Head(worker.queue)
         r == ShMove(fs, Append(worker.folder, shortcut), Append(worker.dest, shortcut))
     IN /\ fs' = r.fs
        /\ gui' = [gui EXCEPT !.workers[w] =
                     IF Len(worker.queue) <= 1 THEN NextFolder(worker)
                     ELSE [worker EXCEPT !.queue = Tail(@)]]
  /\ UNCHANGED <<categories, call, now, stats, sweep, hist>>

\* run_organizer, line 1076: the worker enters fix_onedrive_archives
run_organizer_fix_onedrive_archives(w) ==
  /\ w <= Len(gui.workers)
  /\ gui.workers[w].pc = "next"
  /\ gui.workers[w].todo = << >>
  /\ gui' = [gui EXCEPT !.workers[w].pc = "fixing"]
  /\ UNCHANGED <<fs, categories, call, now, stats, sweep, hist>>

\* fix_onedrive_archives, lines 697-781, in a worker: its effect on the file
\* system, and the end of the thread
run_organizer_return(w) ==
  /\ w <= Len(gui.workers)
  /\ gui.workers[w].pc = "fixing"
  /\ fs' = FixOnedriveArchives(fs, categories).fs
  /\ gui' = [gui EXCEPT !.workers[w].pc = "done"]
  /\ UNCHANGED <<categories, call, now, stats, sweep, hist>>

GuiNext ==
  \/ show_organizer_dialog
  \/ on_dialog_close
  \/ \E folders \in SUBSET {FolderOrder[i] : i \in 1..Len(FolderOrder)} : start_cleanup(folders)
  \/ \E w \in 1..MaxWorkers : run_organizer_organize_folder(w)
  \/ \E w \in 1..MaxWorkers : run_organizer_move(w)
  \/ \E w \in 1..MaxWorkers : run_organizer_fix_onedrive_archives(w)
  \/ \E w \in 1..MaxWorkers : run_organizer_return(w)

GuiSpec == GuiInit /\ [][GuiNext]_vars

(***************************************************************************)
(* Properties.                                                             *)
(***************************************************************************)
OldForwardOp == "organize_folder_old"
ForwardOps == { "organize_folder_old", "organize_folder", "handle_shortcuts_first",
                "move_shortcuts" }
RepairOps == { "fix_onedrive_archives", "update_all_archives", "fix_all_archives" }

\* the paths at which f holds the user content id
PathsOfContent(f, id) == {p \in DOMAIN f : f[p].kind = "file" /\ f[p].id = id}

\* the identities of the user files of f (0 is the content of a sidecar)
UserContents(f) == {f[p].id : p \in {q \in DOMAIN f : f[q].kind = "file"}} \ {0}

\* a forward sweep is about to handle an entry whose destination path holds
\* a file
ForwardCollision ==
  /\ sweep.pc # "idle"
  /\ IsFile(fs, Append(sweep.dest, Head(sweep.queue)))

\* C1: when the destination of the entry a forward sweep handles already
\* holds a file, the step leaves the file system (the incoming file at its
\* source, the destination file as it was) and all three statistics unchanged.
C1_NoOverwrite == [][ForwardCollision => (fs' = fs /\ stats' = stats)]_vars

\* C2: every user file of the initial file system exists at exactly one path
\* in every reachable state: nothing is deleted, duplicated or replaced.
C2_NothingDeleted ==
  \A id \in UserContents(hist.fs0) : Cardinality(PathsOfContent(fs, id)) = 1

\* C3: space_cleared is the sum of the pre-move sizes of the files whose move
\* succeeded; failed attempts and retries add nothing.
C3_SizeAccounting == stats.space_cleared = hist.okSize

\* C4: an entry that leaves the source folder in a step of a forward sweep
\* lies afterwards at <DatedSubtree>/<category of its name>/<name>, the
\* DatedSubtree being the one of the sweep.
C4_Layout ==
  [][\A n \in {NameOrder[i] : i \in 1..Len(NameOrder)} :
       ( /\ sweep.pc # "idle"
         /\ IsFile(fs, Append(sweep.folder, n))
         /\ ~Exists(fs', Append(sweep.folder, n)) )
       => LET target == hist.last.dated \o << CategoryOfName(categories, n), n >>
          IN IsFile(fs', target) /\ fs'[target] = fs[Append(sweep.folder, n)]]_vars

\* C5: when organize_folder has run to its end without a failed move and
\* without a name collision, the source folder holds no entry the
\* System-Entry Filter accepts, and files_moved has grown by the number of
\* entries the filter accepted at the start.
C5_Completeness ==
  ( /\ hist.last.op \in {"organize_folder_old", "organize_folder"}
    /\ hist.last.done /\ sweep.pc = "idle"
    /\ ~hist.last.failed /\ ~hist.last.collided )
  => /\ EligibleEntries(fs, hist.last.folder) = {}
     /\ stats.files_moved = hist.last.moved0 + hist.last.eligible

\* C6: a forward sweep that starts on a folder with no eligible entry creates
\* no DatedSubtree and leaves files_moved as it was.
C6_NoEmptyDated ==
  (hist.last.op \in ForwardOps /\ hist.last.eligible = 0)
  => (~hist.last.datedNew /\ stats.files_moved = hist.last.moved0)

\* p is the ArchiveRoot of a source folder or lies below it
UnderArchiveRoot(p) ==
  \E folder \in SourceFolders : IsPrefix(Append(folder, "Archive"), p)

\* C7: in every step of a forward sweep the Archive folder is not among the
\* selected entries, and the ArchiveRoot and every entry below it stay at
\* their paths (no forward sweep moves them); files_moved grows only by
\* entries that left the source folder itself.
C7_ArchiveExclusion ==
  [][hist'.last.op \in ForwardOps =>
       /\ "Archive" \notin hist'.last.selected
       /\ \A p \in DOMAIN fs :
            UnderArchiveRoot(p) => (p \in DOMAIN fs' /\ fs'[p].kind = fs[p].kind)
       /\ stats'.files_moved - stats.files_moved =
            Cardinality({n \in hist'.last.selected :
                           /\ Exists(fs, Append(hist'.last.folder, n))
                           /\ ~Exists(fs', Append(hist'.last.folder, n))
                           /\ hist'.last.op = OldForwardOp})]_vars

\* C7 witness: the older organize_folder has finished a sweep that moved an
\* entry while the ArchiveRoot already held the batch of an earlier sweep,
\* and that batch is still in place.
C7_Witness ==
  /\ hist.last.op = "organize_folder_old" /\ hist.last.done
  /\ stats.files_moved > hist.last.moved0
  /\ PathsOfContent(fs, 8) =
       { desktop_path \o << "Archive", Timestamp(0), "Shortcuts", "l.lnk" >> }

Filed(f, p) ==
  /\ IsFile(f, p) /\ f[p].id # 0
  /\ Len(p) >= 4
  /\ p[Len(p) - 1] \in {categories[i].name : i \in 1..Len(categories)}
  /\ HasUnderscore(p[Len(p) - 2])
  /\ p[Len(p) - 3] = "Archive"

\* C9: no step moves a file that lies inside a CategoryFolder to another
\* path, and no step creates a folder inside that CategoryFolder.
C9_FiledStayPut ==
  [][\A p \in DOMAIN fs :
       Filed(fs, p) =>
         /\ PathsOfContent(fs', fs[p].id) \subseteq {p}
         /\ \A q \in DOMAIN fs' :
              (IsPrefix(Parent(p), q) /\ fs'[q].kind = "dir") => q \in DOMAIN fs]_vars

\* the DatedSubtrees fix_onedrive_archives processes in f
MirrorDatedSubtrees(f) ==
  {Append(onedrive_archive, n) : n \in
     {m \in {NameOrder[i] : i \in 1..Len(NameOrder)} :
        IsDir(f, Append(onedrive_archive, m)) /\ HasUnderscore(m)}}

\* C10: after fix_onedrive_archives every DatedSubtree it processes holds
\* every configured CategoryFolder, and every file that lay loose in it lies
\* in the CategoryFolder of its extension, unless that folder already held a
\* file of the same name, in which case the loose file is where it was.
C10_RepairPostcondition ==
  [][(hist'.runs # hist.runs /\ hist'.last.op = "fix_onedrive_archives") =>
       \A d \in MirrorDatedSubtrees(fs) :
         /\ \A i \in 1..Len(categories) : IsDir(fs', Append(d, categories[i].name))
         /\ \A n \in {NameOrder[i] : i \in 1..Len(NameOrder)} :
              IsFile(fs, Append(d, n)) =>
                LET target == d \o << CategoryOfName(categories, n), n >>
                IN IF Exists(fs, target)
                   THEN fs'[Append(d, n)] = fs[Append(d, n)]
                   ELSE IsFile(fs', target) /\ fs'[target] = fs[Append(d, n)]
                        /\ ~Exists(fs', Append(d, n))]_vars

\* C11: the classifier returns Shortcuts for .lnk, .url and .desktop whatever
\* the categories list, otherwise the name of the first category, in
\* declaration order, whose extensions hold the extension, and Others when
\* no category does; this for get_category_for_extension and for the
\* classification inside move_to_category.
C11_ClassifierResult ==
  call.fn \in {"get_category_for_extension", "move_to_category"} =>
    LET listing == {i \in 1..Len(categories) : call.ext \in categories[i].extensions} IN
    IF call.ext \in { <<".","l","n","k">>, <<".","u","r","l">>,
                      <<".","d","e","s","k","t","o","p">> }
    THEN call.result = "Shortcuts"
    ELSE IF listing = {} THEN call.result = "Others"
    ELSE \E i \in listing : /\ \A j \in listing : i <= j
                            /\ call.result = categories[i].name

\* C11 witness: get_category_for_extension has returned Shortcuts for .lnk
\* under a configuration whose first category, Documents, lists .lnk too.
C11_Witness ==
  /\ call.fn = "get_category_for_extension"
  /\ call.ext = <<".","l","n","k">>
  /\ Len(categories) > 0
  /\ categories[1].name = "Documents" /\ call.ext \in categories[1].extensions
  /\ call.result = "Shortcuts"

\* C12: an attempt of the older organize_folder on its current entry is the
\* first, second or third one.  An attempt that finds the file free moves it
\* and adds one to files_moved, and the entry is not attempted again.  An
\* attempt that finds it locked leaves the entry in the source folder as it
\* was; the first two leave the entry current with no error counted, and the
\* third adds exactly one to errors.
C12_BoundedRetry ==
  [][(sweep.pc = "old" /\ now' = now) =>
       LET item_path == Append(sweep.folder, Head(sweep.queue))
           locked == hist'.locks = hist.locks + 1
           left == sweep'.pc = "idle" \/ sweep'.queue = Tail(sweep.queue)
       IN /\ sweep.retry_count \in 1..3
          /\ ~locked =>
                /\ ~Exists(fs', item_path)
                /\ stats'.files_moved = stats.files_moved + 1
                /\ stats'.errors = stats.errors
                /\ left
          /\ locked => Exists(fs', item_path) /\ fs'[item_path] = fs[item_path]
          /\ (locked /\ sweep.retry_count > 1) =>
                /\ stats'.files_moved = stats.files_moved /\ stats'.errors = stats.errors
                /\ sweep'.queue = sweep.queue /\ sweep'.pc = "old"
                /\ sweep'.retry_count = sweep.retry_count - 1
          /\ (locked /\ sweep.retry_count = 1) =>
                /\ stats'.files_moved = stats.files_moved
                /\ stats'.errors = stats.errors + 1
                /\ left]_vars

\* C12 witness: the older organize_folder found its first entry locked three
\* times; the entry is still in the source folder, one error is counted and
\* the sweep is past that entry.
C12_Witness ==
  /\ hist.last.op = "organize_folder_old"
  /\ hist.locks = 3 /\ stats.errors = 1 /\ stats.files_moved = 0
  /\ \A n \in hist.last.selected : Exists(fs, Append(hist.last.folder, n))
  /\ hist.last.selected # {}
  /\ sweep.retry_count \in {0, 3}

\* the two variants of organize_folder
OrganizeFolderOps == {"organize_folder_old", "organize_folder"}
OrganizeFolderPcs == {"old", "organize_folder"}

\* C13: organize_folder takes up every entry of the listing that the
\* System-Entry Filter accepts; after an attempt it retries the same entry
\* with a smaller retry counter, goes on to the next entry whether or not
\* the move failed, or ends after the last entry; and a sweep under way
\* always reaches its end.
C13_SweepReachesDone ==
  /\ [][(hist'.runs = hist.runs + 1 /\ hist'.last.op \in OrganizeFolderOps) =>
          EligibleEntries(fs, hist'.last.folder)
            \subseteq {sweep'.queue[i] : i \in 1..Len(sweep'.queue)}]_vars
  /\ [][(sweep.pc \in OrganizeFolderPcs /\ now' = now) =>
          \/ /\ sweep'.pc = sweep.pc /\ sweep'.queue = sweep.queue
             /\ sweep'.retry_count < sweep.retry_count
          \/ sweep'.pc = sweep.pc /\ sweep'.queue = Tail(sweep.queue)
          \/ Len(sweep.queue) = 1 /\ sweep'.pc = "idle" /\ hist'.last.done]_vars
  /\ (sweep.pc \in OrganizeFolderPcs) ~> (sweep.pc = "idle" /\ hist.last.done)

\* C14: a failure inside one DatedSubtree ends at most the repair of that
\* DatedSubtree: after fix_onedrive_archives every DatedSubtree of the
\* mirrored archive has been taken up, that is, the folder of the first
\* category, which the repair of a DatedSubtree begins with, exists in it.
\* (The forward sweeps of organize are separate steps, each with its own
\* handler: one that fails leaves the next free to start.)
C14_FailureIsolation ==
  [][(hist'.runs = hist.runs + 1 /\ hist'.last.op = "fix_onedrive_archives") =>
       \A d \in MirrorDatedSubtrees(fs) :
         IsDir(fs', Append(d, categories[1].name))]_vars

\* the sidecar of folder_path cannot be written: it exists, hidden
DecorationFails(f, folder_path) ==
  /\ IsFile(f, Append(folder_path, "Desktop.ini"))
  /\ f[Append(folder_path, "Desktop.ini")].hidden

\* C15: a sidecar that cannot be written stops neither the folders nor the
\* moves of the sweep.  A forward sweep that decorates its Shortcuts folder
\* (organize_folder, handle_shortcuts_first) still takes up every shortcut of
\* the folder; fix_onedrive_archives still makes every category folder of a
\* DatedSubtree one of whose category folders is already decorated.
C15_DecorationDecoupled ==
  [][/\ ( /\ hist'.runs = hist.runs + 1
          /\ hist'.last.op \in {"organize_folder", "handle_shortcuts_first"}
          /\ DecorationFails(fs, Append(hist'.last.dated, "Shortcuts")) )
        => sweep'.queue = ShortcutsOf(ListDir(fs, hist'.last.folder))
     /\ (hist'.runs = hist.runs + 1 /\ hist'.last.op = "fix_onedrive_archives")
        => \A d \in MirrorDatedSubtrees(fs) :
             (\E i \in 1..Len(categories) :
                DecorationFails(fs, Append(d, categories[i].name)))
             => \A i \in 1..Len(categories) : IsDir(fs', Append(d, categories[i].name))]_vars


\* the name tests of the System-Entry Filter: the lower-cased name is on the
\* denylist or contains "archive"
FilteredName(n) ==
  \/ Lower(Chars(n)) \in system_files
  \/ Contains(Lower(Chars(n)), <<"a","r","c","h","i","v","e">>)

\* C16: System-Entry Filter in the forward sweep.  No step of a variant of
\* organize_folder moves an entry of the swept folder whose lower-cased name
\* equals a denylist name or contains "archive", whatever its extension: the
\* entry is at its path, unchanged, after the step.
C16_SystemEntriesStay ==
  [][sweep.pc \in {"old", "organize_folder"} =>
       \A i \in 1..Len(NameOrder) :
         LET p == Append(sweep.folder, NameOrder[i]) IN
         (FilteredName(NameOrder[i]) /\ Exists(fs, p)) => (Exists(fs', p) /\ fs'[p] = fs[p])]_vars


\* os.stat on the entry raises
StatFails(f, p) == Exists(f, p) /\ f[p].kind = "denied"

\* C17: filter on stat errors.  An entry whose inspection raises a permission
\* or stat error is treated as ineligible: the forward sweep does not select
\* it and no attempt to move it is made.
C17_StatErrorIneligible ==
  [][/\ (hist'.runs = hist.runs + 1 /\ hist'.last.op = "organize_folder_old")
          => \A n \in hist'.last.selected : ~StatFails(fs, Append(hist'.last.folder, n))
     /\ sweep.pc = "old" => ~StatFails(fs, Append(sweep.folder, Head(sweep.queue)))]_vars


\* the source folder a worker is sweeping, if any
Sweeping(worker, folder_path) == worker.pc = "moving" /\ worker.folder = folder_path

\* C18: sweeps of one source folder are serialized.  At no moment are two
\* cleanup workers in the move loop of the same source folder, and at no
\* moment are two of them inside fix_onedrive_archives, which repairs the
\* same ArchiveRoots in every worker.
C18_SweepsSerialized ==
  \A v, w \in 1..Len(gui.workers) :
    v # w =>
      /\ ~(gui.workers[v].pc = "moving" /\ Sweeping(gui.workers[w], gui.workers[v].folder))
      /\ ~(gui.workers[v].pc = "fixing" /\ gui.workers[w].pc = "fixing")


\* C19: one DatedSubtree per forward sweep.  The DatedSubtree of a call of
\* organize_folder is the one decided at its start: no attempt changes it or
\* the folder the entries are moved to, and every path an attempt creates or
\* changes lies under it, also when the minute has changed since the start.
C19_OneDatedSubtree ==
  [][sweep.pc \in OrganizeFolderPcs =>
       /\ hist'.last.dated = hist.last.dated
       /\ IsPrefix(hist.last.dated, sweep.dest)
       /\ sweep'.pc # "idle" => sweep'.dest = sweep.dest
       /\ \A p \in DOMAIN fs' :
            (p \notin DOMAIN fs \/ fs'[p] # fs[p]) => IsPrefix(hist.last.dated, p)]_vars

\* C19 witness: the older organize_folder has ended; it selected two entries,
\* moved one of them after the minute had changed, and both are in the
\* DatedSubtree named after the minute it started in.
C19_Witness ==
  /\ hist.last.op = "organize_folder_old" /\ hist.last.done /\ hist.last.late
  /\ Cardinality(hist.last.selected) = 2
  /\ BaseName(hist.last.dated) = Timestamp(0) /\ now = 1
  /\ \A n \in hist.last.selected : IsFile(fs, Append(hist.last.dated, n))


\* d is a directory directly inside a directory named Archive, with an
\* underscore in its name
IsDatedSubtree(f, d) ==
  /\ IsDir(f, d) /\ Len(d) >= 2
  /\ BaseName(Parent(d)) = "Archive"
  /\ HasUnderscore(BaseName(d))

\* C20: dated-subtree detection.  A repair routine treats a directory as a
\* DatedSubtree, creating a category folder in it or moving a file of it into
\* one, only if the directory is an immediate child of an ArchiveRoot with an
\* underscore in its name; deeper directories and children without an
\* underscore get no category folder and lose no file.
C20_DatedSubtreeDetection ==
  [][(hist'.runs = hist.runs + 1 /\ hist'.last.op \in RepairOps) =>
       \A p \in DOMAIN fs' :
         (p \notin DOMAIN fs /\ BaseName(p) \in {categories[i].name : i \in 1..Len(categories)})
         => IsDatedSubtree(fs, Parent(p))]_vars

\* the walking repair routines
WalkingRepairOps == {"update_all_archives", "fix_all_archives"}

\* the directories of f
Directories(f) == {p \in DOMAIN f : f[p].kind = "dir"}

\* C21: the repair sweep terminates.  A run of update_all_archives or of
\* fix_all_archives, with categories whose names contain an underscore,
\* creates a number of directories that is bounded by the tree it
\* started on: each of them lies directly in a directory that existed
\* before the run, so there are at most as many as that tree has directories
\* times the number of categories.
C21_RepairTerminates ==
  [][(hist'.runs = hist.runs + 1 /\ hist'.last.op \in WalkingRepairOps) =>
       /\ \A p \in Directories(fs') \ Directories(fs) : Parent(p) \in Directories(fs)
       /\ hist'.last.mkdirs <= Cardinality(Directories(fs)) * Len(categories)]_vars

\* the names of the loose files of the DatedSubtree d whose target, the same
\* name in the CategoryFolder of their extension, is taken
Colliding(f, cats, d) ==
  {n \in {NameOrder[i] : i \in 1..Len(NameOrder)} :
     /\ IsFile(f, Append(d, n))
     /\ Exists(f, d \o << CategoryOfName(cats, n), n >>)}

\* C22: collision in the repair sweep is a skip.  After a run of
\* fix_onedrive_archives, or of update_all_archives (which moves with
\* move_to_category), a loose file of a DatedSubtree whose name is taken in
\* its target CategoryFolder is where it was, and so is the filed file; and
\* on a tree without decorated folders whose loose files all collide,
\* fix_onedrive_archives ends without an error.
C22_RepairCollisionSkips ==
  [][(hist'.runs = hist.runs + 1
        /\ hist'.last.op \in {"fix_onedrive_archives", "update_all_archives"}) =>
       \A d \in MirrorDatedSubtrees(fs) :
         /\ \A n \in Colliding(fs, categories, d) :
              LET target == d \o << CategoryOfName(categories, n), n >>
              IN /\ Exists(fs', Append(d, n)) /\ fs'[Append(d, n)] = fs[Append(d, n)]
                 /\ Exists(fs', target) /\ fs'[target] = fs[target]
         /\ ( /\ hist'.last.op = "fix_onedrive_archives"
              /\ MirrorDatedSubtrees(fs) = {d}
              /\ \A p \in DOMAIN fs : IsFile(fs, p) => ~fs[p].hidden
              /\ \A n \in {NameOrder[i] : i \in 1..Len(NameOrder)} :
                   IsFile(fs, Append(d, n)) => n \in Colliding(fs, categories, d) )
            => ~hist'.last.failed]_vars

\* C22 witness: fix_onedrive_archives has run on the mirrored DatedSubtree
\* that holds n.txt both loose and in Documents; it made the missing category
\* folders without an error, and both files are where they were.
C22_Witness ==
  LET d == Append(onedrive_archive, Timestamp(0)) IN
  /\ hist.last.op = "fix_onedrive_archives" /\ hist.runs = 1 /\ ~hist.last.failed
  /\ "n.txt" \in Colliding(hist.fs0, categories, d)
  /\ hist.last.mkdirs > 0
  /\ IsFile(fs, Append(d, "n.txt")) /\ fs[Append(d, "n.txt")] = File(9)
  /\ IsFile(fs, d \o << "Documents", "n.txt" >>)
  /\ fs[d \o << "Documents", "n.txt" >>] = File(11)

\* the source folders a repair sweep knows: the Desktop and its mirror
RepairedFolders == { desktop_path, Parent(onedrive_archive) }

\* C23: the repair sweep creates nothing where no archive exists.  A repair
\* run leaves every source folder that has no Archive directory as it was:
\* no entry below it is created, removed or changed, so there is no new
\* ArchiveRoot, DatedSubtree or CategoryFolder and no file has moved.
C23_NoArchiveNoRepair ==
  [][(hist'.runs = hist.runs + 1 /\ hist'.last.op \in RepairOps) =>
       \A folder \in RepairedFolders :
         (IsDir(fs, folder) /\ ~Exists(fs, Append(folder, "Archive"))) =>
           \A p \in DOMAIN fs \cup DOMAIN fs' :
             IsPrefix(folder, p) => (p \in DOMAIN fs /\ p \in DOMAIN fs' /\ fs'[p] = fs[p])]_vars

\* the ArchiveRoots of f: its directories named Archive
ArchiveRoots(f) == {p \in Directories(f) : BaseName(p) = "Archive"}

\* C24: the repair sweep keeps the set of DatedSubtrees.  A repair run leaves
\* every ArchiveRoot with the child directories it had, under the names they
\* had, and removes no directory anywhere: the DatedSubtrees are only
\* extended.
C24_DatedSubtreesKept ==
  [][(hist'.runs = hist.runs + 1 /\ hist'.last.op \in RepairOps) =>
       /\ \A a \in ArchiveRoots(fs) : IsDir(fs', a) /\ SubDirs(fs', a) = SubDirs(fs, a)
       /\ Directories(fs) \subseteq Directories(fs')]_vars

\* C24 witness: a repair run has extended both DatedSubtrees of the mirrored
\* archive with category folders, and the ArchiveRoot has the same two child
\* directories as at the start.
C24_Witness ==
  /\ hist.last.op \in RepairOps /\ hist.runs = 1 /\ hist.last.mkdirs > 0
  /\ IsDir(fs, onedrive_archive)
  /\ SubDirs(fs, onedrive_archive) = << Timestamp(0), Timestamp(1) >>
  /\ SubDirs(hist.fs0, onedrive_archive) = << Timestamp(0), Timestamp(1) >>
  /\ \A t \in {Timestamp(0), Timestamp(1)} :
       \E i \in 1..Len(categories) :
         /\ ~Exists(hist.fs0, onedrive_archive \o << t, categories[i].name >>)
         /\ IsDir(fs, onedrive_archive \o << t, categories[i].name >>)

\* C25: same-minute sweeps collapse into one batch.  When organize_folder
\* starts and the DatedSubtree of its minute exists already, the creation of
\* that folder (and of its Shortcuts folder) removes and changes nothing
\* inside it, and does not fail: the sweep goes on to move the entries it
\* selected.
C25_SameMinuteBatch ==
  [][(hist'.runs = hist.runs + 1 /\ hist'.last.op \in OrganizeFolderOps
        /\ IsDir(fs, hist'.last.dated)) =>
       /\ \A p \in DOMAIN fs :
            IsPrefix(hist'.last.dated, p) => (p \in DOMAIN fs' /\ fs'[p] = fs[p])
       /\ hist'.last.selected # {} =>
            /\ sweep'.pc # "idle"
            /\ {sweep'.queue[i] : i \in 1..Len(sweep'.queue)} = hist'.last.selected
            /\ IsPrefix(hist'.last.dated, sweep'.dest) /\ IsDir(fs', sweep'.dest)]_vars

\* C25 witness: organize_folder has started in the minute of an earlier batch
\* whose Shortcuts folder holds l.lnk; the folder was there before, the
\* earlier l.lnk is in it, and the sweep is about to move its own entries.
C25_Witness ==
  /\ hist.last.op = "organize_folder" /\ ~hist.last.datedNew /\ ~hist.last.done
  /\ sweep.pc = "organize_folder" /\ Len(sweep.queue) = Cardinality(hist.last.selected)
  /\ hist.last.dated = desktop_path \o << "Archive", Timestamp(0) >>
  /\ IsFile(fs, Append(sweep.dest, "l.lnk")) /\ fs[Append(sweep.dest, "l.lnk")] = File(8)

\* the category a repair routine chooses for the name n
RepairCategory(fn, n) ==
  IF fn = "move_to_category_name"
  THEN CategoryInMove(categories, SplitExt(Lower(Chars(n))))
  ELSE CategoryOfName(categories, n)

\* C26: classification is case-insensitive in the file name.  The category a
\* repair routine (move_to_category, fix_all_archives, fix_onedrive_archives)
\* has chosen for a file name is the one it chooses for every name that has
\* the same lower-cased spelling.
C26_CaseInsensitiveName ==
  call.fn \in {"move_to_category_name", "fix_archives_name"} =>
    \A n \in ClassifierNames :
      Lower(Chars(n)) = Lower(Chars(call.name)) => RepairCategory(call.fn, n) = call.result

\* C26 witness: a fix routine has classified N.TXT under a configuration
\* whose Documents category lists .txt, and has chosen Documents, as for n.txt.
C26_Witness ==
  /\ call.fn = "fix_archives_name" /\ call.name = "N.TXT"
  /\ \E i \in 1..Len(categories) :
       categories[i].name = "Documents" /\ <<".","t","x","t">> \in categories[i].extensions
  /\ call.result = "Documents"
  /\ RepairCategory(call.fn, "n.txt") = "Documents"

\* C30: the forward sweep and the classifier agree on what a shortcut is.
\* organize_folder selects a name for the Shortcuts folder exactly when
\* get_category_for_extension, applied to the lower-cased extension of the
\* name, returns Shortcuts; also for a name that is nothing but the extension.
C30_ShortcutAgreement ==
  call.fn = "organize_folder_name" => (call.selected <=> call.result = "Shortcuts")

\* the entries the last sweep selected that are still in its source folder
LeftBehind == {n \in hist.last.selected : Exists(fs, Append(hist.last.folder, n))}

\* the selected entries of the last sweep that are under its dated subfolder:
\* those that left the source folder for it, and those still in the source
\* folder of which the dated subfolder holds the same file under the same name
UnderDated ==
  {n \in hist.last.selected :
     /\ Exists(fs, Append(hist.last.dated, n))
     /\ n \in LeftBehind => fs[Append(hist.last.dated, n)] = fs[Append(hist.last.folder, n)]}

\* C27: every eligible entry is counted exactly once.  When the older
\* organize_folder has ended, the increases of files_moved and of errors
\* together make the number of eligible entries; the increase of files_moved
\* is the number of selected entries that are under the DatedSubtree, and the
\* increase of errors is the number of those still in the source folder.
C27_CountedOnce ==
  (hist.last.op = "organize_folder_old" /\ hist.last.done /\ sweep.pc = "idle") =>
    /\ Cardinality(hist.last.selected) = hist.last.eligible
    /\ (stats.files_moved - hist.last.moved0) + (stats.errors - hist.last.errors0)
         = hist.last.eligible
    /\ stats.files_moved - hist.last.moved0 = Cardinality(UnderDated)
    /\ stats.errors - hist.last.errors0 = Cardinality(LeftBehind)

\* C28: a failed move changes nothing on disk.  An attempt of a forward sweep
\* after which the entry is still in the source folder has failed (a move
\* that returns has taken the entry away); after such an attempt the entry is
\* at its path as it was before, and its name is under the dated subfolder of
\* the sweep only if it was there before the attempt.
C28_FailedMoveChangesNothing ==
  [][(sweep.pc \in OrganizeFolderPcs /\ now' = now) =>
       LET item_path == Append(sweep.folder, Head(sweep.queue))
           target_path == Append(sweep.dest, Head(sweep.queue))
       IN Exists(fs', item_path) =>
            /\ fs'[item_path] = fs[item_path]
            /\ Exists(fs', target_path) => Exists(fs, target_path)]_vars
\* C29: a forward sweep with no eligible entry leaves the disk unchanged.  A
\* run of either organize_folder that selects no entry of its listing creates
\* no directory: no Archive directory and no DatedSubtree.
C29_EmptySweepLeavesDisk ==
  [][(hist'.runs = hist.runs + 1 /\ hist'.last.op \in OrganizeFolderOps
        /\ hist'.last.selected = {}) =>
       Directories(fs') = Directories(fs)]_vars

====
